---- MODULE Spec2Model ----
(***************************************************************************)
(* Model of simljp (src/main.cpp): a Lennard-Jones molecular dynamics      *)
(* simulation.  init_grid places the particles on a cubic lattice,         *)
(* init_velocities samples velocities, simulate integrates with the        *)
(* velocity Verlet scheme, calc_accel / calc_lenjon_force evaluate the     *)
(* pairwise forces and border_handling reflects velocities at the box.     *)
(*                                                                         *)
(* A C++ double is modelled as a binary floating-point number with a       *)
(* MantBits-bit significand, an unbounded exponent, round-to-nearest-even, *)
(* +-infinity and NaN: <<"fin", m, e>> is m * 2^e (m odd, or m = 0 and     *)
(* e = 0, so that every value has one representation), <<"inf", s, 0>> is  *)
(* s * infinity and <<"nan", 0, 0>> is NaN.  There is no signed zero and   *)
(* no overflow or underflow of the exponent.                               *)
(***************************************************************************)
EXTENDS Integers, Sequences, FiniteSets, TLC

\* Width of the significand of the modelled double.
MantBits == 12

\* Width of the integer scratch register the arithmetic is carried out in.
WorkBits == 32 - 3

-----------------------------------------------------------------------------
(* Floating-point arithmetic *)

NaN == <<"nan", 0, 0>>
PosInf == <<"inf", 1, 0>>
NegInf == <<"inf", -1, 0>>
Zero == <<"fin", 0, 0>>
Uninit == <<"uninit", 0, 0>>

IsNaN(a) == a[1] = "nan"
IsInf(a) == a[1] = "inf"
IsFin(a) == a[1] = "fin"

Abs(n) == IF n < 0 THEN -n ELSE n
Sgn(n) == IF n < 0 THEN -1 ELSE IF n > 0 THEN 1 ELSE 0

RECURSIVE BitLen(_)
BitLen(n) == IF n = 0 THEN 0 ELSE 1 + BitLen(n \div 2)

RECURSIVE Canon(_, _)
Canon(m, e) ==
  IF m = 0 THEN Zero
  ELSE IF m % 2 = 0 THEN Canon(m \div 2, e + 1)
  ELSE <<"fin", m, e>>

\* 1 when the quotient q with remainder r of a division by p rounds up to the
\* nearest, ties to even; 0 otherwise.
RoundUp(r, p, q) == IF 2 * r > p \/ (2 * r = p /\ q % 2 = 1) THEN 1 ELSE 0

\* a / p rounded to the nearest integer, ties to even.
RoundedQuot(a, p) == (a \div p) + RoundUp(a % p, p, a \div p)

\* M * 2^e with the k low bits of M rounded away.
RoundShift(M, e, k) == Canon(Sgn(M) * RoundedQuot(Abs(M), 2^k), e + k)

\* The number of bits by which an n-bit significand exceeds MantBits.
Excess(n) == IF n > MantBits THEN n - MantBits ELSE 0

\* The double nearest to M * 2^e (ties to even).
Round(M, e) == IF M = 0 THEN Zero ELSE RoundShift(M, e, Excess(BitLen(Abs(M))))

\* The double of an int.
FromInt(n) == Round(n, 0)

fneg(a) ==
  IF IsFin(a) THEN <<"fin", -a[2], a[3]>>
  ELSE IF IsInf(a) THEN <<"inf", -a[2], 0>>
  ELSE a

\* Sign of a double: -1, 0, 1 (0 for NaN).
fsign(a) == IF IsNaN(a) THEN 0 ELSE Sgn(a[2])

\* a + b of two finite nonzero doubles, a's exponent being the larger by d.
\* When a's significand shifted by d leaves the scratch register, b is below
\* half a unit in the last place of a and the sum rounds to a.
AddAligned(a, b, d) ==
  IF BitLen(Abs(a[2])) + d <= WorkBits + 1
    THEN Round(a[2] * (2^d) + b[2], b[3])
    ELSE a

\* a + b of two finite nonzero doubles.
AddFinite(a, b) ==
  IF a[3] >= b[3] THEN AddAligned(a, b, a[3] - b[3]) ELSE AddAligned(b, a, b[3] - a[3])

fadd(a, b) ==
  IF IsNaN(a) \/ IsNaN(b) THEN NaN
  ELSE IF IsInf(a) THEN (IF IsInf(b) /\ a[2] # b[2] THEN NaN ELSE a)
  ELSE IF IsInf(b) THEN b
  ELSE IF a[2] = 0 THEN b
  ELSE IF b[2] = 0 THEN a
  ELSE AddFinite(a, b)

fsub(a, b) == fadd(a, fneg(b))

fmul(a, b) ==
  IF IsNaN(a) \/ IsNaN(b) THEN NaN
  ELSE IF IsInf(a) \/ IsInf(b)
    THEN (IF a[2] = 0 \/ b[2] = 0 THEN NaN ELSE <<"inf", Sgn(a[2]) * Sgn(b[2]), 0>>)
  ELSE Round(a[2] * b[2], a[3] + b[3])

\* sg * num / den * 2^e rounded, the remainder kept as a sticky bit.
DivRound(sg, num, den, e) ==
  Round(sg * (2 * (num \div den) + (IF num % den # 0 THEN 1 ELSE 0)), e - 1)

\* a / b of two finite nonzero doubles, a's significand scaled by 2^s.
DivScaled(a, b, s) ==
  DivRound(Sgn(a[2]) * Sgn(b[2]), Abs(a[2]) * (2^s), Abs(b[2]), a[3] - s - b[3])

fdiv(a, b) ==
  IF IsNaN(a) \/ IsNaN(b) THEN NaN
  ELSE IF IsInf(a) THEN (IF IsInf(b) THEN NaN
                         ELSE <<"inf", a[2] * (IF b[2] < 0 THEN -1 ELSE 1), 0>>)
  ELSE IF IsInf(b) THEN Zero
  ELSE IF b[2] = 0 THEN (IF a[2] = 0 THEN NaN ELSE <<"inf", Sgn(a[2]), 0>>)
  ELSE IF a[2] = 0 THEN Zero
  ELSE DivScaled(a, b, WorkBits - BitLen(Abs(a[2])))

RECURSIVE ISqrtIn(_, _, _)
ISqrtIn(n, lo, hi) ==
  IF lo >= hi THEN lo
  ELSE IF ((lo + hi + 1) \div 2) * ((lo + hi + 1) \div 2) <= n
    THEN ISqrtIn(n, (lo + hi + 1) \div 2, hi)
    ELSE ISqrtIn(n, lo, ((lo + hi + 1) \div 2) - 1)

\* Largest r with r * r <= n, for 0 <= n < 2^WorkBits.
ISqrt(n) == ISqrtIn(n, 0, 2^((WorkBits + 1) \div 2))

\* sqrt(n) * 2^e rounded, r being ISqrt(n) and the remainder a sticky bit.
SqrtRound(n, r, e) == Round(2 * r + (IF r * r # n THEN 1 ELSE 0), e - 1)

\* sqrt(a) of a finite a > 0 whose significand is scaled by 2^s, a[3] - s even.
SqrtScaled(a, s) == SqrtRound(a[2] * (2^s), ISqrt(a[2] * (2^s)), (a[3] - s) \div 2)

\* The scaling s0 or s0 + 1 that leaves the exponent e - s even.
EvenShift(e, s0) == IF (e - s0) % 2 = 0 THEN s0 ELSE s0 + 1

fsqrt(a) ==
  IF IsNaN(a) THEN NaN
  ELSE IF IsInf(a) THEN (IF a[2] > 0 THEN a ELSE NaN)
  ELSE IF a[2] < 0 THEN NaN
  ELSE IF a[2] = 0 THEN Zero
  ELSE SqrtScaled(a, EvenShift(a[3], WorkBits - 1 - BitLen(a[2])))

\* std::pow(a, k) for a positive integer exponent k.
RECURSIVE fpow(_, _)
fpow(a, k) == IF k = 1 THEN a ELSE fmul(fpow(a, k - 1), a)

\* a < b and a > b on doubles (false when either is NaN).
flt(a, b) == ~IsNaN(a) /\ ~IsNaN(b) /\ a # b /\ fsign(fsub(a, b)) < 0
fgt(a, b) == flt(b, a)

-----------------------------------------------------------------------------
(* Program constants *)

One == FromInt(1)
Two == FromInt(2)
Half == fdiv(One, Two)

\* #define SIGMA 1.0e-1
SIGMA == fdiv(FromInt(1), FromInt(10))

\* #define EPSILON 1.0
EPSILON == FromInt(1)

\* Rows of a 3 x n matrix.
Rows == 0 .. 2

\* A column vector with the rows 0 .. 2 from its three entries.
AsColumn(s) == [r \in Rows |-> s[r + 1]]

-----------------------------------------------------------------------------
(* cbrt *)

RECURSIVE ICbrtIn(_, _)
ICbrtIn(n, c) == IF (c + 1) * (c + 1) * (c + 1) > n THEN c ELSE ICbrtIn(n, c + 1)

\* Largest c with c^3 <= n, for a small n >= 0.
ICbrt(n) == ICbrtIn(n, 0)

\* One digit of a long division in base B by r: <<quotient so far, remainder>>
\* extended by the next digit, which is zero.
DivStep(qr, r, B) == <<qr[1] * B + (qr[2] * B) \div r, (qr[2] * B) % r>>

\* <<floor(n * 2^(3 * MantBits) / r), remainder>> by long division in base
\* 2^MantBits.
CubeQuot(n, r) ==
  DivStep(DivStep(DivStep(<<0, n>>, r, 2^MantBits), r, 2^MantBits), r, 2^MantBits)

\* r^3 <= n * 2^(3 * MantBits), without forming the cube.
CubeAtMost(n, r) == r * r <= CubeQuot(n, r)[1]

RECURSIVE CbrtIn(_, _, _)
CbrtIn(n, lo, hi) ==
  IF lo >= hi THEN lo
  ELSE IF CubeAtMost(n, (lo + hi + 1) \div 2)
    THEN CbrtIn(n, (lo + hi + 1) \div 2, hi)
    ELSE CbrtIn(n, lo, ((lo + hi + 1) \div 2) - 1)

\* r * 2^-MantBits rounded, r being floor(cbrt(n) * 2^MantBits).
CbrtRound(n, r) ==
  Round(2 * r + (IF r * r = CubeQuot(n, r)[1] /\ CubeQuot(n, r)[2] = 0 THEN 0 ELSE 1),
        -MantBits - 1)

\* cbrt(n) of a positive int n with integer part c.
CbrtFrom(n, c) == CbrtRound(n, CbrtIn(n, c * (2^MantBits), (c + 1) * (2^MantBits) - 1))

\* cbrt(n) of a positive int n, correctly rounded.
cbrt(n) == CbrtFrom(n, ICbrt(n))

\* fmod(a, 1) != 0 for a finite a: a has a fractional part.
HasFraction(a) == a[2] # 0 /\ a[3] < 0

\* (int)a for a finite a >= 0.
ToInt(a) == IF a[3] >= 0 THEN a[2] * (2^a[3]) ELSE a[2] \div (2^(-a[3]))

-----------------------------------------------------------------------------
(* init_grid *)

\* px wrapping one column late.
NextPx_late(px, ipo) == IF (px % ipo) = 0 /\ px # 0 THEN 0 ELSE px + 1

\* px after px++ and the test (px % (int)po) == 0.
NextPx(px, ipo) == IF ((px + 1) % ipo) = 0 THEN 0 ELSE px + 1

\* py before the test on py: increased when px wrapped.
CarryPy(px, py, ipo) == IF ((px + 1) % ipo) = 0 THEN py + 1 ELSE py

\* The test py != 0 && (py % (int)po) == 0.
WrapPy(py, ipo) == py # 0 /\ (py % ipo) = 0

\* One iteration of the loop of init_grid on <<mp, pi, px, py, pz>>: the
\* column pi is written and the counters advance.
GridStep(st, ipo) ==
  << [st[1] EXCEPT ![st[2]] = AsColumn(<<FromInt(st[3]), FromInt(st[4]), FromInt(st[5])>>)],
     st[2] + 1,
     NextPx(st[3], ipo),
     IF WrapPy(CarryPy(st[3], st[4], ipo), ipo) THEN 0 ELSE CarryPy(st[3], st[4], ipo),
     IF WrapPy(CarryPy(st[3], st[4], ipo), ipo) THEN st[5] + 1 ELSE st[5] >>

RECURSIVE GridLoop(_, _, _)
GridLoop(st, co, ipo) ==
  IF st[2] >= co THEN st[1] ELSE GridLoop(GridStep(st, ipo), co, ipo)

\* The position matrix init_grid leaves in mp (co = mp.cols() >= 1).
init_grid(mp, co) == GridLoop(<<mp, 0, 0, 0, 0>>, co, ToInt(cbrt(co)))

\* The line init_grid and simulate print when cbrt(co) is no integer.
WrongSize == "Error: Wrong size of particles."

\* What the size test appends to cout.
SizeMessage(co) == IF HasFraction(cbrt(co)) THEN <<WrongSize>> ELSE <<>>

-----------------------------------------------------------------------------
(* calc_lenjon_force and calc_accel *)

\* 24*EPSILON*(2*x^7 - x^13) for x = rpn0*SIGMA: rpn1 after line 185.
Magnitude(x) ==
  fmul(fmul(FromInt(24), EPSILON), fsub(fmul(Two, fpow(x, 7)), fpow(x, 13)))

\* rpn1 of calc_lenjon_force for one column, rpn0 being its inverse distance.
ForceMagnitude(rpn0) == Magnitude(fmul(rpn0, SIGMA))

\* One column of rp = mp - vp.replicate(1, mp.cols()).
Displacement(vp, q) == <<fsub(q[0], vp[0]), fsub(q[1], vp[1]), fsub(q[2], vp[2])>>

\* One entry of rp.colwise().norm().
Norm(rp) ==
  fsqrt(fadd(fadd(fmul(rp[1], rp[1]), fmul(rp[2], rp[2])), fmul(rp[3], rp[3])))

\* One column of rp.array().rowwise() * f.
ScaleColumn(rp, f) == <<fmul(rp[1], f), fmul(rp[2], f), fmul(rp[3], f)>>

\* One column of mpo from its column rp and its entry rpn0.
ForceColumn(rp, rpn0) == ScaleColumn(rp, fmul(ForceMagnitude(rpn0), rpn0))

\* One column of mpo from its column rp.
ColumnOf(rp) == ForceColumn(rp, fdiv(One, Norm(rp)))

\* One column of mpo: the force calc_lenjon_force stores for the particle at
\* vp from the surrounding particle at q.
LenjonColumn(vp, q) == ColumnOf(Displacement(vp, q))

\* calc_lenjon_force(vp, mp, mpo): mpo for the block of columns from .. co-1
\* of mp, as a sequence of columns (empty when the block has no column).
RECURSIVE calc_lenjon_force(_, _, _, _)
calc_lenjon_force(vp, mp, from, co) ==
  IF from >= co THEN <<>>
  ELSE <<LenjonColumn(vp, mp[from])>> \o calc_lenjon_force(vp, mp, from + 1, co)

\* The sum of two columns.
AddColumns(s, c) == <<fadd(s[1], c[1]), fadd(s[2], c[2]), fadd(s[3], c[3])>>

\* mpo.rowwise().sum(): the sum of the columns, the zero vector for none.
RECURSIVE RowwiseSum(_, _)
RowwiseSum(mpo, k) ==
  IF k = 0 THEN <<Zero, Zero, Zero>>
  ELSE IF k = 1 THEN mpo[1]
  ELSE AddColumns(RowwiseSum(mpo, k - 1), mpo[k])

\* mpo.rowwise().sum() of the whole of mpo.
SumOf(mpo) == RowwiseSum(mpo, Len(mpo))

\* The block starting at the particle itself.
BlockStart_self(pi) == pi

\* The partners calc_accel hands to calc_lenjon_force for particle pi:
\* the block mp.block(0, pi+1, 3, co-pi-1).
BlockStart(pi) == pi + 1

\* The acceleration matrix calc_accel leaves in ma.
calc_accel(mp, co) ==
  [pi \in 0 .. co - 1 |->
     AsColumn(SumOf(calc_lenjon_force(mp[pi], mp, BlockStart(pi), co)))]

-----------------------------------------------------------------------------
(* border_handling *)

\* The test of one axis with a particle on a border counted as outside.
Outside_closed(x, lo, hi) == ~flt(x, hi) \/ ~fgt(x, lo)

\* The test of one axis (lines 85, 88, 91): the coordinate is above the border
\* named second or below the border named first.
Outside(x, lo, hi) == fgt(x, hi) \/ flt(x, lo)

\* The velocity matrix border_handling leaves in mv (mp is not written).
border_handling(mp, mv, co, closed, left, right, top, bottom, front, back) ==
  IF ~closed THEN mv
  ELSE [pi \in 0 .. co - 1 |->
          [r \in Rows |->
             IF r = 0 THEN (IF Outside(mp[pi][0], left, right)
                              THEN fneg(mv[pi][0]) ELSE mv[pi][0])
             ELSE IF r = 1 THEN (IF Outside(mp[pi][1], bottom, top)
                                   THEN fneg(mv[pi][1]) ELSE mv[pi][1])
             ELSE (IF Outside(mp[pi][2], front, back)
                     THEN fneg(mv[pi][2]) ELSE mv[pi][2])]]

-----------------------------------------------------------------------------
(* simulate: the statements of one pass of the main timestep loop *)

\* mp + mv*td + 0.5*ma*pow(td, 2), coefficient-wise.
PositionUpdate(mp, mv, ma, td, co) ==
  [pi \in 0 .. co - 1 |->
     [r \in Rows |->
        fadd(fadd(mp[pi][r], fmul(mv[pi][r], td)),
             fmul(fmul(Half, ma[pi][r]), fpow(td, 2)))]]

\* ma += mal.
Accumulate(ma, mal, co) ==
  [pi \in 0 .. co - 1 |-> [r \in Rows |-> fadd(ma[pi][r], mal[pi][r])]]

\* mv += 0.5*ma*td.
VelocityUpdate(mv, ma, td, co) ==
  [pi \in 0 .. co - 1 |->
     [r \in Rows |-> fadd(mv[pi][r], fmul(fmul(Half, ma[pi][r]), td))]]

\* The loop test running one step too many.
LoopTest_inclusive(ts, tts) == ts <= tts

\* The test ts < tts of the main timestep loop.
LoopTest(ts, tts) == ts < tts

\* A 3 x co matrix as MatrixXd(3, co) leaves it: allocated, not initialised.
Unset(co) == [pi \in 0 .. co - 1 |-> [r \in Rows |-> Uninit]]

-----------------------------------------------------------------------------
(* Bounds of the model *)

\* Largest number of timesteps a run is given.
MaxSteps == 2

\* Largest particle count init_grid is called with on its own.
MaxCo == 64

\* Particle counts of the whole runs: two cubes and a non-cube.
CoSet == {1, 2, 8}

\* Timesteps of the whole runs.
TdSet == {One, Half}

\* Velocity components init_velocities may draw.
VelSet == {Zero, One, fneg(One), fneg(fdiv(One, FromInt(2^18)))}

\* The particles whose velocity is drawn freely; the others draw zero.
Probes(co) == {0, co - 2, co - 1} \cap (0 .. co - 1)

-----------------------------------------------------------------------------
(* State *)

VARIABLES
  pc,      \* the statement the program is at
  co,      \* number of particles (columns of mp, mv, ma)
  td,      \* timestep
  tts,     \* total number of timesteps
  mp,      \* position matrix
  mv,      \* velocity matrix
  ma,      \* acceleration matrix
  mal,     \* simulate's copy of ma taken before calc_accel
  po,      \* simulate's box side cbrt(mp.cols())
  ts,      \* loop counter of simulate
  out,     \* lines written to cout
  written, \* step indices handed to write()
  calls,   \* how often each routine has run
  start,   \* <<mp, mv>> as they were when the routine under way was entered
  box,     \* the borders a direct call of border_handling is given
  mpo      \* the force matrix a direct call of calc_lenjon_force returns

vars == <<pc, co, td, tts, mp, mv, ma, mal, po, ts, out, written, calls, start,
          box, mpo>>

NoCalls == [position |-> 0, accel |-> 0, velocity |-> 0, border |-> 0]

-----------------------------------------------------------------------------
(* The program: main *)

Init ==
  /\ pc = "init_grid"
  /\ co \in CoSet
  /\ td \in TdSet
  /\ tts \in 0 .. MaxSteps
  /\ mp = Unset(co) /\ mv = Unset(co) /\ ma = Unset(co) /\ mal = Unset(co)
  /\ po = Uninit
  /\ ts = 0
  /\ out = <<>>
  /\ written = <<>>
  /\ calls = NoCalls
  /\ start = <<>>
  /\ box = <<>>
  /\ mpo = <<>>

\* main: init_grid(mp).
InitGrid ==
  /\ pc = "init_grid"
  /\ out' = out \o SizeMessage(co)
  /\ mp' = init_grid(mp, co)
  /\ pc' = "init_velocities"
  /\ UNCHANGED <<co, td, tts, mv, ma, mal, po, ts, written, calls, start, box, mpo>>

\* main: init_velocities(mv).
InitVelocities ==
  /\ pc = "init_velocities"
  /\ \E k \in Probes(co) : \E v \in [Rows -> VelSet] :
        mv' = [pi \in 0 .. co - 1 |->
                 IF pi = k THEN v ELSE [r \in Rows |-> Zero]]
  /\ pc' = "simulate"
  /\ UNCHANGED <<co, td, tts, mp, ma, mal, po, ts, out, written, calls, start, box, mpo>>

\* simulate, up to the main timestep loop.
SimulateEntry ==
  /\ pc = "simulate"
  /\ po' = cbrt(co)
  /\ out' = out \o SizeMessage(co)
  /\ ma' = calc_accel(mp, co)
  /\ calls' = [calls EXCEPT !.accel = @ + 1]
  /\ start' = <<mp, mv>>
  /\ ts' = 0
  /\ pc' = "loop"
  /\ UNCHANGED <<co, td, tts, mp, mv, mal, written, box, mpo>>

\* The loop test holds: mp = mp + mv*td + 0.5*ma*pow(td, 2); mal = ma.
StepPosition ==
  /\ pc = "loop" /\ LoopTest(ts, tts)
  /\ mp' = PositionUpdate(mp, mv, ma, td, co)
  /\ mal' = ma
  /\ calls' = [calls EXCEPT !.position = @ + 1]
  /\ pc' = "accel"
  /\ UNCHANGED <<co, td, tts, mv, ma, po, ts, out, written, start, box, mpo>>

\* calc_accel(mp, ma).
StepAccel ==
  /\ pc = "accel"
  /\ ma' = calc_accel(mp, co)
  /\ calls' = [calls EXCEPT !.accel = @ + 1]
  /\ pc' = "velocity"
  /\ UNCHANGED <<co, td, tts, mp, mv, mal, po, ts, out, written, start, box, mpo>>

\* ma += mal; mv += 0.5*ma*td.
StepVelocity ==
  /\ pc = "velocity"
  /\ ma' = Accumulate(ma, mal, co)
  /\ mv' = VelocityUpdate(mv, ma', td, co)
  /\ calls' = [calls EXCEPT !.velocity = @ + 1]
  /\ pc' = "border"
  /\ UNCHANGED <<co, td, tts, mp, mal, po, ts, out, written, start, box, mpo>>

\* border_handling(mp, mv, true, 0, po, 0, po, 0, po).
StepBorder ==
  /\ pc = "border"
  /\ mv' = border_handling(mp, mv, co, TRUE, Zero, po, Zero, po, Zero, po)
  /\ calls' = [calls EXCEPT !.border = @ + 1]
  /\ pc' = "write"
  /\ UNCHANGED <<co, td, tts, mp, ma, mal, po, ts, out, written, start, box, mpo>>

\* write(mp, mv, ma, path, ts) and the loop's ts++.
StepWrite ==
  /\ pc = "write"
  /\ written' = Append(written, ts)
  /\ ts' = ts + 1
  /\ pc' = "loop"
  /\ UNCHANGED <<co, td, tts, mp, mv, ma, mal, po, out, calls, start, box, mpo>>

\* The loop test fails: simulate returns and main ends.
LoopExit ==
  /\ pc = "loop" /\ ~LoopTest(ts, tts)
  /\ pc' = "done"
  /\ UNCHANGED <<co, td, tts, mp, mv, ma, mal, po, ts, out, written, calls, start,
                 box, mpo>>

Next ==
  \/ InitGrid
  \/ InitVelocities
  \/ SimulateEntry
  \/ StepPosition
  \/ StepAccel
  \/ StepVelocity
  \/ StepBorder
  \/ StepWrite
  \/ LoopExit

Spec == Init /\ [][Next]_vars

-----------------------------------------------------------------------------
(* Direct calls of init_grid, calc_lenjon_force and border_handling *)

\* Largest coordinate index of the positions the direct calls are given.
MaxCoord == 3

\* Coordinates of the surrounding particle calc_lenjon_force is given:
\* multiples of SIGMA/2.
ForceCoords == {fdiv(FromInt(k), FromInt(20)) : k \in -MaxCoord .. MaxCoord}

\* Coordinates of the particle border_handling is given.
BorderCoords == {FromInt(k) : k \in -1 .. MaxCoord} \cup {NaN}

\* Velocities of the particle border_handling is given.
BorderVels == {AsColumn(<<One, fneg(One), Zero>>), AsColumn(<<fneg(Two), Zero, One>>),
               AsColumn(<<Half, Half, fneg(Half)>>)}

\* Boxes border_handling is given; simulate's own call names its upper border
\* as bottom and its lower border as top, as the boxes with bottom = 2 do.
Boxes ==
  {[closed |-> c, left |-> Zero, right |-> Two, top |-> t, bottom |-> b,
    front |-> f, back |-> FromInt(3)] :
     c \in BOOLEAN, t \in {Zero, One, Two}, b \in {Zero, Two}, f \in {Zero, fneg(One)}}

\* The variables a direct call does not use.
Idle ==
  /\ td = One /\ tts = 0 /\ ts = 0
  /\ ma = <<>> /\ mal = <<>> /\ po = Uninit
  /\ out = <<>> /\ written = <<>> /\ calls = NoCalls /\ start = <<>>

UnitInit ==
  \/ /\ pc = "call_init_grid"
     /\ co \in 1 .. MaxCo
     /\ mp = Unset(co) /\ mv = Unset(co)
     /\ box = <<>> /\ mpo = <<>>
     /\ Idle
  \/ /\ pc = "call_lenjon_force"
     /\ co = 2
     /\ \E q \in [Rows -> ForceCoords] :
           mp = [pi \in 0 .. 1 |-> IF pi = 0 THEN AsColumn(<<Zero, Zero, Zero>>) ELSE q]
     /\ mv = Unset(co)
     /\ box = <<>> /\ mpo = <<>>
     /\ Idle
  \/ /\ pc = "call_border"
     /\ co = 2
     /\ \E q \in [Rows -> BorderCoords] :
           mp = [pi \in 0 .. 1 |->
                   IF pi = 0 THEN q ELSE AsColumn(<<FromInt(3), fneg(One), One>>)]
     /\ \E v \in BorderVels :
           mv = [pi \in 0 .. 1 |-> IF pi = 0 THEN v ELSE AsColumn(<<One, One, One>>)]
     /\ box \in Boxes
     /\ mpo = <<>>
     /\ Idle

\* init_grid(mp).
CallInitGrid ==
  /\ pc = "call_init_grid"
  /\ out' = out \o SizeMessage(co)
  /\ mp' = init_grid(mp, co)
  /\ pc' = "init_grid_returned"
  /\ UNCHANGED <<co, td, tts, mv, ma, mal, po, ts, written, calls, start, box, mpo>>

\* calc_lenjon_force(mp.col(0), mp.block(0, 1, 3, 1), mpo).
CallLenjonForce ==
  /\ pc = "call_lenjon_force"
  /\ mpo' = calc_lenjon_force(mp[0], mp, 1, co)
  /\ pc' = "lenjon_force_returned"
  /\ UNCHANGED <<co, td, tts, mp, mv, ma, mal, po, ts, out, written, calls, start, box>>

\* border_handling(mp, mv, closed, left, right, top, bottom, front, back).
CallBorder ==
  /\ pc = "call_border"
  /\ start' = <<mp, mv>>
  /\ mv' = border_handling(mp, mv, co, box.closed, box.left, box.right, box.top,
                           box.bottom, box.front, box.back)
  /\ pc' = "border_returned"
  /\ UNCHANGED <<co, td, tts, mp, ma, mal, po, ts, out, written, calls, box, mpo>>

UnitNext ==
  \/ CallInitGrid
  \/ CallLenjonForce
  \/ CallBorder

UnitSpec == UnitInit /\ [][UnitNext]_vars

-----------------------------------------------------------------------------
(* Vocabulary of the properties *)

Particles == 0 .. co - 1

ZeroColumn == AsColumn(<<Zero, Zero, Zero>>)

\* n is the cube of a natural number.
IsCube(n) == ICbrt(n) * ICbrt(n) * ICbrt(n) = n

\* Every entry of the matrix m is a finite number.
AllFinite(m) == \A pi \in Particles : \A r \in Rows : IsFin(m[pi][r])

\* Two particles of the position matrix m are at the same place.
Coincident(m) == \E i, j \in Particles : i < j /\ m[i] = m[j]

\* simulate has seeded ma and has not returned.
InLoop == pc \in {"loop", "accel", "velocity", "border", "write"}

\* What particle j adds to the acceleration calc_accel stores for particle i:
\* its column of mpo when j is in the block handed to calc_lenjon_force for i,
\* and nothing otherwise.
Contribution(m, i, j) ==
  IF j \in BlockStart(i) .. co - 1 THEN LenjonColumn(m[i], m[j]) ELSE <<Zero, Zero, Zero>>

NegColumn(c) == <<fneg(c[1]), fneg(c[2]), fneg(c[3])>>

\* The pairwise forces on particle i from every other particle, in index order.
RECURSIVE ForcesFromAll(_, _, _)
ForcesFromAll(m, i, j) ==
  IF j >= co THEN <<>>
  ELSE (IF j = i THEN <<>> ELSE <<LenjonColumn(m[i], m[j])>>) \o ForcesFromAll(m, i, j + 1)

\* The sum of the columns pi .. co-1 of the matrix m.
RECURSIVE TotalFrom(_, _)
TotalFrom(m, pi) ==
  IF pi >= co THEN <<Zero, Zero, Zero>>
  ELSE AddColumns(<<m[pi][0], m[pi][1], m[pi][2]>>, TotalFrom(m, pi + 1))

-----------------------------------------------------------------------------
(* Properties *)

\* C1: after one evaluation of calc_accel on N >= 2 particles at pairwise
\* distinct positions, what j adds to i's acceleration is the exact negation
\* of what i adds to j's, every acceleration is the sum of the forces from all
\* N-1 other particles, and the accelerations sum to zero.
C1_PairwiseAntisymmetry ==
  (pc = "loop" /\ ts = 0 /\ IsCube(co) /\ co >= 2 /\ ~Coincident(mp)) =>
    /\ \A i, j \in Particles :
         i # j => Contribution(mp, i, j) = NegColumn(Contribution(mp, j, i))
    /\ \A i \in Particles : ma[i] = AsColumn(SumOf(ForcesFromAll(mp, i, 0)))
    /\ TotalFrom(ma, 0) = <<Zero, Zero, Zero>>

\* (r / SIGMA)^6 for the displacement rp.
RelSix(rp) ==
  fpow(fdiv(fadd(fadd(fmul(rp[1], rp[1]), fmul(rp[2], rp[2])), fmul(rp[3], rp[3])),
            fmul(SIGMA, SIGMA)), 3)

\* The sign of the component of the force f along the displacement rp towards
\* the partner: 1 towards the partner, -1 away from it, 0 for no force.
Towards(f, rp) ==
  fsign(fadd(fadd(fmul(f[1], rp[1]), fmul(f[2], rp[2])), fmul(f[3], rp[3])))

\* C2: the force calc_lenjon_force computes for a particle at separation r > 0
\* from its partner points away from the partner when (r/SIGMA)^6 < 2, is zero
\* when (r/SIGMA)^6 = 2 and points towards the partner when (r/SIGMA)^6 > 2.
C2_SignChangeAtReq ==
  (pc = "lenjon_force_returned" /\ mp[0] # mp[1]) =>
    /\ flt(RelSix(Displacement(mp[0], mp[1])), Two)
         => Towards(mpo[1], Displacement(mp[0], mp[1])) < 0
    /\ RelSix(Displacement(mp[0], mp[1])) = Two
         => Towards(mpo[1], Displacement(mp[0], mp[1])) = 0
    /\ fgt(RelSix(Displacement(mp[0], mp[1])), Two)
         => Towards(mpo[1], Displacement(mp[0], mp[1])) > 0

\* C3: at the start of every integration step the acceleration matrix is the
\* Force Engine's output on the current positions alone.
C3_StepStartsFromNewAccel ==
  (pc = "loop" /\ ts < tts /\ IsCube(co)) => ma = calc_accel(mp, co)

\* The lattice point the claim gives particle i on a cube of side s.
LatticePoint(i, s) ==
  AsColumn(<<FromInt(i % s), FromInt((i \div s) % s), FromInt(i \div (s * s))>>)

\* C4: for N = s^3 init_grid gives particle i the position
\* (i mod s, (i div s) mod s, i div s^2); the positions are pairwise distinct
\* and are exactly the points of {0..s-1}^3.
C4_LatticeFilled ==
  (pc = "init_grid_returned" /\ IsCube(co)) =>
    /\ \A i \in Particles : mp[i] = LatticePoint(i, ICbrt(co))
    /\ \A i, j \in Particles : i # j => mp[i] # mp[j]
    /\ {mp[i] : i \in Particles}
         = {AsColumn(<<FromInt(x), FromInt(y), FromInt(z)>>) :
              x \in 0 .. ICbrt(co) - 1, y \in 0 .. ICbrt(co) - 1, z \in 0 .. ICbrt(co) - 1}

\* init_grid has filled a 3 x 3 x 3 lattice, the last particle at (2, 2, 2).
C4_Witness ==
  /\ pc = "init_grid_returned" /\ co = 27
  /\ mp[26] = AsColumn(<<Two, Two, Two>>)
  /\ mp[5] = AsColumn(<<Two, One, Zero>>)

\* C5: when the particle count is no perfect cube the run is rejected: no
\* lattice position is written and no statement of simulate runs.
C5_NonCubeRejected ==
  ~IsCube(co) =>
    /\ pc \in {"init_grid", "rejected"}
    /\ mp = Unset(co)
    /\ calls = NoCalls

\* The borders of axis r of a box.
AxisLow(b, r) == <<b.left, b.bottom, b.front>>[r + 1]
AxisHigh(b, r) == <<b.right, b.top, b.back>>[r + 1]

\* x lies strictly outside [lo, hi].
StrictlyOutside(x, lo, hi) == flt(x, lo) \/ fgt(x, hi)

\* C6: a closed-mode call of border_handling negates exactly the velocity
\* components whose coordinate is strictly outside [low, high] on that axis
\* and leaves every other velocity component and every position unchanged.
C6_OnlyOutsideFlipped ==
  (pc = "border_returned" /\ box.closed) =>
    /\ mp = start[1]
    /\ \A pi \in Particles : \A r \in Rows :
         mv[pi][r] = IF StrictlyOutside(mp[pi][r], AxisLow(box, r), AxisHigh(box, r))
                       THEN fneg(start[2][pi][r])
                       ELSE start[2][pi][r]

\* A closed-mode call has returned with particle 0 above the upper border of
\* the x axis and flipped there, and exactly on the upper border of the y axis
\* and not flipped there.
C6_Witness ==
  /\ pc = "border_returned" /\ box.closed
  /\ fgt(mp[0][0], box.right) /\ mv[0][0] = fneg(start[2][0][0]) /\ mv[0][0] # Zero
  /\ mp[0][1] = box.top /\ flt(box.bottom, box.top)
  /\ mv[0][1] = start[2][0][1] /\ mv[0][1] # Zero
  /\ mp[0][2] = box.front

\* C7: once a Force Engine evaluation has met two particles at zero distance
\* the run is over: no statement of the step runs after it, and no non-finite
\* acceleration is used to update positions or velocities.
C7_ZeroDistanceIsFatal ==
  IsCube(co) =>
    /\ (pc \in {"velocity", "border", "write"} => ~Coincident(mp))
    /\ (pc \in {"loop", "velocity"} => AllFinite(ma))
    /\ (InLoop => AllFinite(mp) /\ AllFinite(mv))

\* The statements of a step run in the order position update, Force Engine,
\* velocity update, Boundary Handler.
StepOrder ==
  /\ calls.position >= calls.accel - 1
  /\ calls.accel - 1 >= calls.velocity
  /\ calls.velocity >= calls.border
  /\ calls.border >= calls.position - 1

\* The number of step bodies begun.
StepsBegun == IF pc \in {"accel", "velocity", "border", "write"} THEN ts + 1 ELSE ts

\* C8: simulate ends after exactly tts step bodies, the Force Engine having
\* run tts + 1 times (once before the first step, then once per step between
\* the position and the velocity update) and the Boundary Handler tts times
\* (once per step after the velocity update); with tts = 0 positions and
\* velocities are as they were.  The steps begun never exceed tts.
C8_FixedStepCount ==
  /\ (InLoop \/ pc = "done") =>
       StepOrder /\ StepsBegun <= tts /\ calls.position = StepsBegun
  /\ pc = "done" =>
       /\ ts = tts
       /\ calls.position = tts /\ calls.velocity = tts
       /\ calls.accel = tts + 1
       /\ calls.border = tts
       /\ written = [i \in 1 .. tts |-> i - 1]
       /\ (tts = 0 => mp = start[1] /\ mv = start[2])

\* A run of two steps of eight particles has ended.
C8_Witness ==
  /\ pc = "done" /\ tts = 2 /\ co = 8
  /\ calls.accel = 3 /\ calls.border = 2
  /\ mp # start[1]

\* C9: after every call of the Boundary Handler in a run from the lattice,
\* a particle outside [0, s] on an axis has a velocity on that axis that is
\* zero or points back to the cell.
C9_ReflectedInwards ==
  (pc = "write" /\ IsCube(co)) =>
    \A pi \in Particles : \A r \in Rows :
      /\ fgt(mp[pi][r], po) => fsign(mv[pi][r]) <= 0
      /\ flt(mp[pi][r], Zero) => fsign(mv[pi][r]) >= 0

\* |a| of a double.
fabs(a) == IF fsign(a) < 0 THEN fneg(a) ELSE a

\* C10: after the seeding evaluation the acceleration of the particle of the
\* highest index is the zero vector, and its velocity components keep their
\* magnitude.
C10_LastParticleNeverAccelerated ==
  (InLoop \/ pc = "done") =>
    /\ ma[co - 1] = ZeroColumn
    /\ \A r \in Rows : fabs(mv[co - 1][r]) = fabs(start[2][co - 1][r])

\* A run of eight particles has ended in which another particle was
\* accelerated and the last one was reflected on the x axis.
C10_Witness ==
  /\ pc = "done" /\ co = 8 /\ tts >= 1
  /\ ma[0] # ZeroColumn
  /\ mv[co - 1][0] # Zero
  /\ mv[co - 1][0] = fneg(start[2][co - 1][0])
====
